---- MODULE Spec2Model ----
(***************************************************************************)
(* The timers plugin (src/src/index.js, src/src/reducer.js): a keyed map   *)
(* of timer records in the plugin's slice of the store, six commands that  *)
(* read the map and dispatch one keyed write each, and a periodic handler  *)
(* that scans a snapshot of the map and writes every running timer.        *)
(*                                                                         *)
(* JavaScript values: a record is a function from field names to values,   *)
(* a field that was never assigned is absent from its domain (undefined),  *)
(* and NaN is a number outside the range of every clock reading.           *)
(*                                                                         *)
(* A handler is an operator of the state it reads: it yields the store it  *)
(* leaves, the actions it dispatched, the events it emitted and what it    *)
(* returned or threw.  The action of the handler installs that store.      *)
(***************************************************************************)
EXTENDS Integers, Sequences, FiniteSets, TLC

VARIABLES
    state,   \* this.state: the plugin's slice of the store, name -> timer
    now,     \* the value new Date().getTime() returns
    scan,    \* the run of _handleTimers in progress, if any
    backs,   \* history: how many times the clock was set backwards
    hist     \* history: per name, what happened since it was created

vars == <<state, now, scan, backs, hist>>

---------------------------------------------------------------------------
(* Bounds                                                                  *)

MaxSteps == 2
MaxBack == 1
MaxCalls == 1
ClockSteps == {1000}
MaxNow == 1000 * MaxSteps

Names == {"t", "u"}
Number(n) == [typeof |-> "number", num |-> n, str |-> ""]
String(text) == [typeof |-> "string", num |-> 0, str |-> text]
Undefined == [typeof |-> "undefined", num |-> 0, str |-> ""]
CreatePayload(name, type, duration) ==
    [name |-> name, type |-> type, duration |-> duration]
\* the createTimer payloads tried: both types for "t", a number and a text
\* as duration, one more timer "u" whose duration is negative, and one
\* payload for each way createTimer refuses its input
CreateInputs ==
    { CreatePayload("t", "incrementing", Number(1000)),
      CreatePayload("t", "decrementing", String("1s")),
      CreatePayload("u", "incrementing", Number(-500)),
      CreatePayload("t", "incrementing", String("soon")),
      CreatePayload("t", "decrementing", Undefined),
      CreatePayload("t", "stopwatch", Number(1000)) }
PauseInputs == {"true", "false", "undefined"}
\* the names in the payloads tried: every command for "t"; "u" is created,
\* resumed and deleted
DeleteInputs == Names
ResumeInputs == Names
ResetInputs == {"t"}
PauseNameInputs == {"t"}
ToggleInputs == {"t"}

---------------------------------------------------------------------------
(* JavaScript arithmetic on numbers that may be NaN                        *)

NaN == -999999

Sub(a, b) == IF a = NaN \/ b = NaN THEN NaN ELSE a - b
Add(a, b) == IF a = NaN \/ b = NaN THEN NaN ELSE a + b
Gt(a, b) == a # NaN /\ b # NaN /\ a > b
Lt(a, b) == a # NaN /\ b # NaN /\ a < b

\* timer.timestamp used as a number: undefined converts to NaN
timestampOf(timer) ==
    IF "timestamp" \in DOMAIN timer THEN timer.timestamp ELSE NaN

\* _.merge({}, timer, fields) and the assignments to a clone
merge(timer, fields) ==
    [k \in DOMAIN timer \cup DOMAIN fields |->
        IF k \in DOMAIN fields THEN fields[k] ELSE timer[k]]

---------------------------------------------------------------------------
(* The policy table                                                        *)

timerTypes == {"incrementing", "decrementing"}

\* mutant: the gap taken the wrong way round (timestamp - now)
timerFunctions_reversedGap(type, timer, t) ==
    LET gap == Sub(timestampOf(timer), t)
    IN  IF type = "incrementing"
        THEN LET value == Add(timer.value, gap)
             IN  merge(timer, [timestamp |-> t, value |-> value,
                               elapsed |-> Gt(value, timer.duration)])
        ELSE LET value == Sub(timer.value, gap)
             IN  merge(timer, [timestamp |-> t, value |-> value,
                               elapsed |-> Lt(value, 0)])

\* mutant: the incrementing rule assigns the gap instead of adding it
timerFunctions_assignsGap(type, timer, t) ==
    LET gap == Sub(t, timestampOf(timer))
    IN  IF type = "incrementing"
        THEN merge(timer, [timestamp |-> t, value |-> gap,
                           elapsed |-> Gt(gap, timer.duration)])
        ELSE LET value == Sub(timer.value, gap)
             IN  merge(timer, [timestamp |-> t, value |-> value,
                               elapsed |-> Lt(value, 0)])

timerFunctions(type, timer, t) ==
    LET gap == Sub(t, timestampOf(timer))
    IN  IF type = "incrementing"
        THEN LET value == Add(timer.value, gap)
             IN  merge(timer, [timestamp |-> t, value |-> value,
                               elapsed |-> Gt(value, timer.duration)])
        ELSE LET value == Sub(timer.value, gap)
             IN  merge(timer, [timestamp |-> t, value |-> value,
                               elapsed |-> Lt(value, 0)])

\* mutant: the fresh values of the two types exchanged
timerResetFunctions_swapped(type, timer) ==
    IF type = "incrementing"
    THEN merge(timer, [value |-> timer.duration])
    ELSE merge(timer, [value |-> 0])

timerResetFunctions(type, timer) ==
    IF type = "incrementing"
    THEN merge(timer, [value |-> 0])
    ELSE merge(timer, [value |-> timer.duration])

\* juration.parse(text): seconds, or <<>> when it throws
jurationParse(text) == IF text = "1s" THEN <<1>> ELSE <<>>

---------------------------------------------------------------------------
(* The store                                                               *)

setTimerData(key, payload) ==
    [type |-> "timers.setTimerData", key |-> key, payload |-> payload]
deleteTimerAction(key) ==
    [type |-> "timers.deleteTimer", key |-> key]

pluginReducer(st, action) ==
    IF action.type = "timers.setTimerData"
    THEN [k \in DOMAIN st \cup {action.key} |->
            IF k = action.key THEN action.payload ELSE st[k]]
    ELSE [k \in DOMAIN st \ {action.key} |-> st[k]]

\* this.timers, read by _createTimer: the same map as this.state
thisTimers == state

EmptyMap == [k \in {} |-> 0]
\* snap: what the scan read, for the timers still to come; pending: their
\* names; dispatched: whether the scan has dispatched yet; calls: the
\* commands listeners have run during the scan
NoScan == [active |-> FALSE, snap |-> EmptyMap, pending |-> {},
           dispatched |-> FALSE, calls |-> 0]

\* A command runs between two runs of the handler, or from a listener the
\* handler's dispatch or emit called: never before the scan's first write.
CanCall == ~scan.active \/ (scan.dispatched /\ scan.calls < MaxCalls)

---------------------------------------------------------------------------
(* What a handler does                                                     *)

\* state: the store it leaves; outcome: "ok", "noop" (a warning branch),
\* "skip" or "throw"; writes: the actions dispatched, in order; events:
\* the events emitted; ret: <<v>> for a returned v, <<>> for undefined
Result(st, outcome, error, writes, events, ret) ==
    [state |-> st, outcome |-> outcome, error |-> error,
     writes |-> writes, events |-> events, ret |-> ret]

event(name, payload) == [event |-> name, payload |-> payload]

\* throw new Error(...): nothing dispatched, nothing emitted
Throw(error) == Result(state, "throw", error, <<>>, <<>>, <<>>)

\* the warning branches: logger.warn and nothing else
Warn == Result(state, "noop", "", <<>>, <<>>, <<>>)

\* this.dispatch(action); this.emit(...); return ret
Commit(action, events, ret) ==
    Result(pluginReducer(state, action), "ok", "", <<action>>, events, ret)

---------------------------------------------------------------------------
(* The commands                                                            *)

\* cb: what the callback yields for timers[timerName], which the caller
\* names `timer`; it is evaluated only when the timer is found
_withTimer(timerName, cb) ==
    IF timerName \notin DOMAIN state
    THEN Throw("not found")
    ELSE cb

\* mutant: no check that the name is free
_createTimer_overwrites(timerName, type, duration) ==
    IF duration.typeof = "string" /\ jurationParse(duration.str) = <<>>
    THEN Throw("juration")
    ELSE IF duration.typeof \notin {"string", "number"}
    THEN Throw("invalid duration type")
    ELSE IF type \notin timerTypes
    THEN Throw("nonexistent type")
    ELSE LET parsed == IF duration.typeof = "string"
                       THEN jurationParse(duration.str)[1] * 1000
                       ELSE duration.num
             newTimer == timerResetFunctions(type,
                            [name |-> timerName, type |-> type,
                             duration |-> parsed, running |-> FALSE,
                             elapsed |-> FALSE])
         IN  Commit(setTimerData(newTimer.name, newTimer),
                    <<event("timerCreated", newTimer)>>, <<newTimer>>)

_createTimer(timerName, type, duration) ==
    IF timerName \in DOMAIN thisTimers
    THEN Throw("already exists")
    ELSE IF duration.typeof = "string" /\ jurationParse(duration.str) = <<>>
    THEN Throw("juration")
    ELSE IF duration.typeof \notin {"string", "number"}
    THEN Throw("invalid duration type")
    ELSE IF type \notin timerTypes
    THEN Throw("nonexistent type")
    ELSE LET parsed == IF duration.typeof = "string"
                       THEN jurationParse(duration.str)[1] * 1000
                       ELSE duration.num
             newTimer == timerResetFunctions(type,
                            [name |-> timerName, type |-> type,
                             duration |-> parsed, running |-> FALSE,
                             elapsed |-> FALSE])
         IN  Commit(setTimerData(newTimer.name, newTimer),
                    <<event("timerCreated", newTimer)>>, <<newTimer>>)

\* mutant: the delete is dispatched without looking the timer up
_deleteTimer_noLookup(timerName) ==
    Commit(deleteTimerAction(timerName),
           <<event("timerDeleted", [name |-> timerName])>>,
           <<[deleted |-> TRUE]>>)

_deleteTimer(timerName) ==
    LET timer == state[timerName]
        cb ==
            Commit(deleteTimerAction(timer.name),
                   <<event("timerDeleted", [name |-> timerName])>>,
                   <<[deleted |-> TRUE]>>)
    IN  _withTimer(timerName, cb)

\* mutant: a reset refreshes the timestamp, as a resume does
_resetTimer_refreshesTimestamp(timerName, pause) ==
    LET timer == state[timerName]
        cb ==
            IF timer.type \notin timerTypes
            THEN Throw("timerResetFunctions[timer.type] is not a function")
            ELSE
            LET reset == timerResetFunctions(timer.type, timer)
                newTimer == merge(reset,
                                [running |-> (pause = "false"),
                                 elapsed |-> FALSE,
                                 timestamp |-> now])
            IN  Commit(setTimerData(newTimer.name, newTimer),
                       <<event("timerReset", newTimer)>>, <<newTimer>>)
    IN  _withTimer(timerName, cb)

\* pause: the payload's field, "undefined" taking the default true
_resetTimer(timerName, pause) ==
    LET timer == state[timerName]
        cb ==
            IF timer.type \notin timerTypes
            THEN Throw("timerResetFunctions[timer.type] is not a function")
            ELSE
            LET reset == timerResetFunctions(timer.type, timer)
                newTimer == merge(reset,
                                [running |-> (pause = "false"),
                                 elapsed |-> FALSE])
            IN  Commit(setTimerData(newTimer.name, newTimer),
                       <<event("timerReset", newTimer)>>, <<newTimer>>)
    IN  _withTimer(timerName, cb)

\* mutant: a pause clears elapsed
_pauseTimer_clearsElapsed(timerName) ==
    LET timer == state[timerName]
        cb ==
            IF ~timer.running
            THEN Warn
            ELSE LET newTimer == merge(timer, [running |-> FALSE,
                                               elapsed |-> FALSE])
                 IN  Commit(setTimerData(newTimer.name, newTimer),
                            <<event("timerPaused", newTimer)>>, <<newTimer>>)
    IN  _withTimer(timerName, cb)

\* mutant: the already-paused branch writes the record again
_pauseTimer_alwaysWrites(timerName) ==
    LET timer == state[timerName]
        cb ==
            LET newTimer == merge(timer, [running |-> FALSE])
            IN  Commit(setTimerData(newTimer.name, newTimer),
                       <<event("timerPaused", newTimer)>>, <<newTimer>>)
    IN  _withTimer(timerName, cb)

_pauseTimer(timerName) ==
    LET timer == state[timerName]
        cb ==
            IF ~timer.running
            THEN Warn
            ELSE LET newTimer == merge(timer, [running |-> FALSE])
                 IN  Commit(setTimerData(newTimer.name, newTimer),
                            <<event("timerPaused", newTimer)>>, <<newTimer>>)
    IN  _withTimer(timerName, cb)

\* mutant: resume leaves the timestamp as it was
_resumeTimer_keepsTimestamp(timerName) ==
    LET timer == state[timerName]
        cb ==
            IF timer.running
            THEN Warn
            ELSE LET newTimer == merge(timer, [running |-> TRUE])
                 IN  Commit(setTimerData(newTimer.name, newTimer),
                            <<event("timerResumed", newTimer)>>, <<newTimer>>)
    IN  _withTimer(timerName, cb)

_resumeTimer(timerName) ==
    LET timer == state[timerName]
        cb ==
            IF timer.running
            THEN Warn
            ELSE LET newTimer == merge(timer, [running |-> TRUE,
                                               timestamp |-> now])
                 IN  Commit(setTimerData(newTimer.name, newTimer),
                            <<event("timerResumed", newTimer)>>, <<newTimer>>)
    IN  _withTimer(timerName, cb)

\* mutant: the choice between pause and resume inverted
_toggleTimer_inverted(timerName) ==
    LET timer == state[timerName]
        cb ==
            IF timer.running
            THEN _resumeTimer(timerName)
            ELSE _pauseTimer(timerName)
    IN  _withTimer(timerName, cb)

_toggleTimer(timerName) ==
    LET timer == state[timerName]
        cb ==
            IF timer.running
            THEN _pauseTimer(timerName)
            ELSE _resumeTimer(timerName)
    IN  _withTimer(timerName, cb)

---------------------------------------------------------------------------
(* The tick                                                                *)

\* one iteration of the loop over Object.values(timers), for the timer
\* the scan read under `name`
\* mutant: the loop does not skip the timers that are not running
_handleTimer_ignoresRunning(name) ==
    LET timer == scan.snap[name]
    IN  IF timer.type \notin timerTypes
        THEN Warn
        ELSE LET newTimer == timerFunctions(timer.type, timer, now)
                 elapsed == newTimer.elapsed /\ ~timer.elapsed
             IN  Commit(setTimerData(newTimer.name, newTimer),
                        IF elapsed
                        THEN <<event("timerElapsed", newTimer)>>
                        ELSE <<>>,
                        <<>>)

\* mutant: timerElapsed emitted whenever the new record is elapsed
_handleTimer_levelTriggered(name) ==
    LET timer == scan.snap[name]
    IN  IF ~timer.running
        THEN Result(state, "skip", "", <<>>, <<>>, <<>>)
        ELSE IF timer.type \notin timerTypes
        THEN Warn
        ELSE LET newTimer == timerFunctions(timer.type, timer, now)
             IN  Commit(setTimerData(newTimer.name, newTimer),
                        IF newTimer.elapsed
                        THEN <<event("timerElapsed", newTimer)>>
                        ELSE <<>>,
                        <<>>)

\* mutant: a timer of an unrecognized type is removed from the store
_handleTimer_dropsUnknownType(name) ==
    LET timer == scan.snap[name]
    IN  IF ~timer.running
        THEN Result(state, "skip", "", <<>>, <<>>, <<>>)
        ELSE IF timer.type \notin timerTypes
        THEN Commit(deleteTimerAction(timer.name), <<>>, <<>>)
        ELSE LET newTimer == timerFunctions(timer.type, timer, now)
                 elapsed == newTimer.elapsed /\ ~timer.elapsed
             IN  Commit(setTimerData(newTimer.name, newTimer),
                        IF elapsed
                        THEN <<event("timerElapsed", newTimer)>>
                        ELSE <<>>,
                        <<>>)

_handleTimer(name) ==
    LET timer == scan.snap[name]
    IN  IF ~timer.running
        THEN Result(state, "skip", "", <<>>, <<>>, <<>>)
        ELSE IF timer.type \notin timerTypes
        THEN Warn
        ELSE LET newTimer == timerFunctions(timer.type, timer, now)
                 elapsed == newTimer.elapsed /\ ~timer.elapsed
             IN  Commit(setTimerData(newTimer.name, newTimer),
                        IF elapsed
                        THEN <<event("timerElapsed", newTimer)>>
                        ELSE <<>>,
                        <<>>)

\* the scan with `name` done
ScanAfter(name, dispatched) ==
    IF scan.pending = {name} THEN NoScan
    ELSE [active |-> TRUE,
          snap |-> [k \in scan.pending \ {name} |-> scan.snap[k]],
          pending |-> scan.pending \ {name},
          dispatched |-> scan.dispatched \/ dispatched,
          calls |-> scan.calls]

---------------------------------------------------------------------------
(* History: the scenario a timer is in, and its last pause and resume      *)

\* phase: "created" after createTimer, then "resumed" after a resumeTimer
\*   or "reset" after a resetTimer with pause false, "none" once any other
\*   command was applied to the timer; at: the clock at that resetTimer;
\* gapSum: the sum of the gaps ticks applied since then;
\* emits: the timerElapsed events since then;
\* pst: "paused" while the record is the one a pauseTimer wrote, "resumed"
\*   while it is the one the following resumeTimer wrote; pv: the value at
\*   that pause; rat: the clock at that resume;
\* el: the timerElapsed events since the timer was created or last reset,
\*   counted for as long as the clock has never been set backwards
NoHist == [phase |-> "none", at |-> 0, gapSum |-> 0, emits |-> 0,
           pst |-> "none", pv |-> 0, rat |-> 0, el |-> 0]

\* el after a step that emitted n timerElapsed events for the timer
Elapses(name, n) == IF backs = 0 THEN hist[name].el + n ELSE 0

\* the timer whose scenario the phase follows
Followed == {"t"}

HistCreate(name) ==
    [NoHist EXCEPT !.phase = IF name \in Followed \ scan.pending
                             THEN "created" ELSE "none"]

HistReset(name, newTimer) ==
    IF hist[name].phase = "created" /\ newTimer.running
    THEN [NoHist EXCEPT !.phase = "reset", !.at = now]
    ELSE NoHist

HistPause(name) ==
    [NoHist EXCEPT !.pst = "paused", !.pv = state[name].value,
                   !.el = Elapses(name, 0)]

HistResume(name) ==
    LET h == hist[name]
    IN  [NoHist EXCEPT
                  !.phase = IF h.phase = "created" THEN "resumed" ELSE "none",
                  !.pst = IF h.pst = "paused" THEN "resumed" ELSE "none",
                  !.pv = IF h.pst = "paused" THEN h.pv ELSE 0,
                  !.rat = IF h.pst = "paused" THEN now ELSE 0,
                  !.el = Elapses(name, 0)]

HistTick(name, r) ==
    IF hist[name].phase = "none"
    THEN [NoHist EXCEPT !.el = Elapses(name, Len(r.events))]
    ELSE [hist[name] EXCEPT
            !.gapSum = Add(@, Sub(now, timestampOf(scan.snap[name]))),
            !.emits = @ + Len(r.events),
            !.pst = "none", !.pv = 0, !.rat = 0,
            !.el = Elapses(name, Len(r.events))]

Applied(name, r, h) ==
    /\ state' = r.state
    /\ hist' = IF r.outcome = "ok" THEN [hist EXCEPT ![name] = h] ELSE hist

\* a command that changed the store during a scan came from a listener
Called(r) ==
    /\ scan' = IF scan.active /\ r.outcome = "ok"
               THEN [scan EXCEPT !.calls = @ + 1] ELSE scan
    /\ UNCHANGED <<now, backs>>

---------------------------------------------------------------------------
(* The actions                                                             *)

Init ==
    /\ state = EmptyMap
    /\ now = 0
    /\ scan = NoScan
    /\ backs = 0
    /\ hist = [n \in Names |-> NoHist]

ClockForward ==
    /\ \E d \in ClockSteps : now + d <= MaxNow /\ now' = now + d
    /\ UNCHANGED <<state, scan, backs, hist>>

ClockBackward ==
    /\ backs < MaxBack
    /\ \E d \in ClockSteps : now - d >= 0 /\ now' = now - d
    /\ backs' = backs + 1
    /\ hist' = [n \in Names |-> [hist[n] EXCEPT !.el = 0]]
    /\ UNCHANGED <<state, scan>>

\* _registerCommands: the handlers a host calls with a payload
createTimer ==
    \E payload \in CreateInputs :
        \E r \in {_createTimer(payload.name, payload.type, payload.duration)} :
            /\ CanCall
            /\ Applied(payload.name, r, HistCreate(payload.name))
            /\ Called(r)

deleteTimer ==
    \E name \in DeleteInputs :
        \E r \in {_deleteTimer(name)} :
            /\ CanCall
            /\ Applied(name, r, NoHist)
            /\ Called(r)

resetTimer ==
    \E name \in ResetInputs, pause \in PauseInputs :
        \E r \in {_resetTimer(name, IF pause = "undefined" THEN "true"
                                    ELSE pause)} :
            /\ CanCall
            /\ Applied(name, r,
                       IF r.outcome = "ok" THEN HistReset(name, r.ret[1])
                       ELSE NoHist)
            /\ Called(r)

pauseTimer ==
    \E name \in PauseNameInputs :
        \E r \in {_pauseTimer(name)} :
            /\ CanCall
            /\ Applied(name, r,
                       IF r.outcome = "ok" THEN HistPause(name) ELSE NoHist)
            /\ Called(r)

resumeTimer ==
    \E name \in ResumeInputs :
        \E r \in {_resumeTimer(name)} :
            /\ CanCall
            /\ Applied(name, r, HistResume(name))
            /\ Called(r)

toggleTimer ==
    \E name \in ToggleInputs :
        \E r \in {_toggleTimer(name)} :
            /\ CanCall
            /\ Applied(name, r,
                       IF r.outcome # "ok" THEN NoHist
                       ELSE IF state[name].running THEN HistPause(name)
                       ELSE HistResume(name))
            /\ Called(r)

\* setInterval fires: _handleTimers reads this.state once
_handleTimers ==
    /\ ~scan.active
    /\ scan' = IF DOMAIN state = {} THEN NoScan
               ELSE [active |-> TRUE, snap |-> state,
                     pending |-> DOMAIN state, dispatched |-> FALSE,
                     calls |-> 0]
    /\ UNCHANGED <<state, now, backs, hist>>

\* the loop of _handleTimers takes its next timer
tick ==
    \E name \in scan.pending :
        \E r \in {_handleTimer(name)} :
            /\ Applied(name, r,
                       IF r.outcome = "ok" THEN HistTick(name, r) ELSE NoHist)
            /\ scan' = ScanAfter(name, r.outcome = "ok")
            /\ UNCHANGED <<now, backs>>

Next ==
    \/ ClockForward
    \/ ClockBackward
    \/ createTimer
    \/ deleteTimer
    \/ resetTimer
    \/ pauseTimer
    \/ resumeTimer
    \/ toggleTimer
    \/ _handleTimers
    \/ tick

Spec == Init /\ [][Next]_vars

\* The plugin started on a store that already holds timers: the slice is
\* the host's, and a record in it may be of a type this version of
\* timerFunctions does not have.
RestoredStores ==
    { [n \in {"t", "u"} |->
         [name |-> n,
          type |-> IF n = "t" THEN "stopwatch" ELSE "incrementing",
          duration |-> 1000, value |-> 0, elapsed |-> FALSE,
          running |-> TRUE, timestamp |-> 0]] }

InitRestored ==
    /\ state \in RestoredStores
    /\ now = 0
    /\ scan = NoScan
    /\ backs = 0
    /\ hist = [n \in Names |-> NoHist]

SpecRestored == InitRestored /\ [][Next]_vars

---------------------------------------------------------------------------
(* The claims.  A claim about a handler is stated of the handler's result  *)
(* in every reachable state, for every payload of the sets below.          *)

AnyType == timerTypes \cup {"stopwatch"}
AnyDuration ==
    {Number(n) : n \in {-500, 0, 1000}}
      \cup {String("1s"), String("soon"), Undefined}

\* the value has crossed the threshold of the timer's type
Crossed(timer) ==
    IF timer.type = "incrementing"
    THEN timer.value # NaN /\ timer.value > timer.duration
    ELSE timer.value # NaN /\ timer.value < 0

\* the store `st` after one keyed write of `timer`, and after a delete
WithTimer(st, timer) ==
    [k \in DOMAIN st \cup {timer.name} |->
        IF k = timer.name THEN timer ELSE st[k]]
Without(st, name) == [k \in DOMAIN st \ {name} |-> st[k]]

\* C1: createTimer for a name that is in the registry throws, dispatches
\* nothing, emits nothing and leaves every record as it was, whatever the
\* type and duration given and whatever happened before.
C1_DuplicateCreateFails ==
    \A name \in DOMAIN state, type \in AnyType, duration \in AnyDuration :
        _createTimer(name, type, duration) =
            Result(state, "throw", "already exists", <<>>, <<>>, <<>>)

\* both timers exist, "t" has been resumed and ticked, and creating "t"
\* again throws
C1_Witness ==
    /\ DOMAIN state = {"t", "u"}
    /\ state["t"].running
    /\ state["t"].value = 1000
    /\ _createTimer("t", "decrementing", Number(0)).outcome = "throw"

\* C2: for a running timer of a recognized type the tick writes a record
\* with timestamp = now, value = value + gap (incrementing) or value - gap
\* (decrementing) for gap = now - timestamp, elapsed = value' > duration or
\* value' < 0, and the other fields as read.  Where the record read has no
\* timestamp the gap is NaN, and so is the value written.
C2_TickRule ==
    \A name \in scan.pending : \A r \in {_handleTimer(name)} :
        LET timer == scan.snap[name]
            w == r.writes[1].payload
            numeric == "timestamp" \in DOMAIN timer /\ timer.value # NaN
            g == now - timer.timestamp
        IN  (timer.running /\ timer.type \in timerTypes) =>
              /\ r.outcome = "ok"
              /\ Len(r.writes) = 1
              /\ r.writes[1].type = "timers.setTimerData"
              /\ r.writes[1].key = name
              /\ r.state = WithTimer(state, w)
              /\ DOMAIN w = DOMAIN timer \cup {"timestamp"}
              /\ w.timestamp = now
              /\ w.name = timer.name
              /\ w.type = timer.type
              /\ w.duration = timer.duration
              /\ w.running = timer.running
              /\ numeric /\ timer.type = "incrementing" =>
                    /\ w.value = timer.value + g
                    /\ w.elapsed = (w.value > timer.duration)
              /\ numeric /\ timer.type = "decrementing" =>
                    /\ w.value = timer.value - g
                    /\ w.elapsed = (w.value < 0)
              /\ ~numeric => w.value = NaN /\ w.elapsed = FALSE

\* the scan is about to write a decrementing timer that an earlier tick
\* has already advanced, with a gap that is not zero
C2_Witness ==
    \E name \in scan.pending :
        LET timer == scan.snap[name]
        IN  /\ timer.running
            /\ timer.type = "decrementing"
            /\ "timestamp" \in DOMAIN timer
            /\ timer.value = 0
            /\ now > timer.timestamp

\* C3: the tick does nothing for a timer it read as not running: no write,
\* no event, and the store is left exactly as it was.
C3_TickSkipsPaused ==
    \A name \in scan.pending : \A r \in {_handleTimer(name)} :
        ~scan.snap[name].running =>
              /\ r.writes = <<>>
              /\ r.events = <<>>
              /\ r.state = state

\* the scan reaches a timer that ran, was paused, and is still in the
\* registry as the scan read it, with the clock past its timestamp
C3_Witness ==
    \E name \in scan.pending :
        /\ ~scan.snap[name].running
        /\ hist[name].pst = "paused"
        /\ name \in DOMAIN state
        /\ state[name] = scan.snap[name]
        /\ state[name].value = 1000
        /\ "timestamp" \in DOMAIN state[name]
        /\ now > state[name].timestamp

\* C4: the tick emits timerElapsed for a timer exactly when the record it
\* read has elapsed = false and the record it writes has elapsed = true,
\* once, with the written record as payload; not while the timer stays
\* elapsed, and not when it goes from elapsed back to not elapsed.
C4_EdgeTriggered ==
    \A name \in scan.pending : \A r \in {_handleTimer(name)} :
        LET timer == scan.snap[name]
            edge == /\ r.outcome = "ok"
                    /\ ~timer.elapsed
                    /\ r.writes[1].payload.elapsed
        IN  /\ edge => r.events = <<event("timerElapsed",
                                          r.writes[1].payload)>>
            /\ ~edge => r.events = <<>>

\* the scan is about to write a timer that it read as elapsed and that is
\* no longer elapsed at the present clock: no event
C4_Witness ==
    \E name \in scan.pending :
        /\ scan.snap[name].running
        /\ scan.snap[name].elapsed
        /\ ~_handleTimer(name).writes[1].payload.elapsed
        /\ _handleTimer(name).events = <<>>

\* C5: in every reachable state every timer's elapsed is true exactly when
\* its value has crossed the threshold of its type.
C5_ElapsedIffCrossed ==
    \A name \in DOMAIN state : state[name].elapsed <=> Crossed(state[name])

\* C6 as stated: an incrementing timer that was created and then resumed,
\* with ticks only since, is elapsed and has had exactly one timerElapsed
\* once the gaps of its ticks sum to at least its duration.
C6_AtLeastDuration ==
    \A name \in DOMAIN state :
        LET timer == state[name]
            h == hist[name]
        IN  (/\ h.phase = "resumed"
             /\ timer.type = "incrementing"
             /\ timer.duration >= 0
             /\ h.gapSum >= timer.duration) =>
                timer.elapsed /\ h.emits = 1

\* C6 as amended: once the gaps sum to more than the duration the timer is
\* elapsed and timerElapsed has been emitted; exactly once if the clock
\* never went backwards.
C6_MoreThanDuration ==
    \A name \in DOMAIN state :
        LET timer == state[name]
            h == hist[name]
        IN  (/\ h.phase = "resumed"
             /\ timer.type = "incrementing"
             /\ timer.duration >= 0
             /\ h.gapSum > timer.duration) =>
                /\ timer.elapsed
                /\ h.emits >= 1
                /\ backs = 0 => h.emits = 1

\* "t" was created with duration 1000 and resumed, its ticks have summed
\* gaps of 2000 in two steps, and it is elapsed with one event
C6_Witness ==
    /\ "t" \in DOMAIN state
    /\ hist["t"].phase = "resumed"
    /\ state["t"].type = "incrementing"
    /\ state["t"].duration = 1000
    /\ hist["t"].gapSum = 2000
    /\ state["t"].elapsed
    /\ hist["t"].emits = 1
    /\ backs = 0

\* C7: a decrementing timer that was created and then reset with pause
\* false, with ticks only since, has a negative value and is elapsed once
\* a tick has written it at a clock at least its duration after the reset.
C7_ResetThenElapses ==
    \A name \in DOMAIN state :
        LET timer == state[name]
            h == hist[name]
        IN  (/\ h.phase = "reset"
             /\ timer.type = "decrementing"
             /\ "timestamp" \in DOMAIN timer
             /\ timer.timestamp - h.at >= timer.duration) =>
                /\ timer.value # NaN
                /\ timer.value < 0
                /\ timer.elapsed

\* C8: a resumeTimer after a pauseTimer, with ticks and clock steps only
\* in between, writes the value the timer had at the pause and the present
\* clock as timestamp; the record stays so until the next write, and the
\* first tick that reads it adds (or subtracts) only the gap since the
\* resume.
C8_PauseResumeKeepsValue ==
    /\ \A name \in DOMAIN state :
          hist[name].pst = "paused" =>
            \A r \in {_resumeTimer(name)} :
                /\ ~state[name].running
                /\ state[name].value = hist[name].pv
                /\ r.outcome = "ok"
                /\ r.state[name].value = hist[name].pv
                /\ timestampOf(r.state[name]) = now
                /\ r.state[name].running
    /\ \A name \in DOMAIN state :
          hist[name].pst = "resumed" =>
            /\ state[name].running
            /\ state[name].value = hist[name].pv
            /\ timestampOf(state[name]) = hist[name].rat
    /\ \A name \in scan.pending \cap DOMAIN state :
          (hist[name].pst = "resumed" /\ scan.snap[name] = state[name]) =>
            \A w \in {_handleTimer(name).state[name]} :
            LET pv == hist[name].pv
                g == now - hist[name].rat
            IN  /\ (pv # NaN /\ w.type = "incrementing") => w.value = pv + g
                /\ (pv # NaN /\ w.type = "decrementing") => w.value = pv - g
                /\ pv = NaN => w.value = NaN

\* the scan is about to write, 1000 after the resume, a timer that ran to
\* 1000, was paused, and was resumed at a later clock than the pause
C8_Witness ==
    \E name \in scan.pending \cap DOMAIN state :
        /\ hist[name].pst = "resumed"
        /\ scan.snap[name] = state[name]
        /\ state[name].type = "incrementing"
        /\ hist[name].pv = 1000
        /\ hist[name].rat = 1000
        /\ now = 2000
        /\ backs = 1

\* what C9 says of the result r of a command for `name`
OneWriteOneEvent(name, r) ==
    IF r.outcome = "ok"
    THEN /\ Len(r.writes) = 1
         /\ Len(r.events) = 1
         /\ r.writes[1].key = name
         /\ IF r.writes[1].type = "timers.deleteTimer"
            THEN /\ r.state = Without(state, name)
                 /\ r.events[1].payload = [name |-> name]
            ELSE /\ r.state = WithTimer(state, r.writes[1].payload)
                 /\ r.writes[1].payload.name = name
                 /\ r.events[1].payload = r.state[name]
                 /\ r.ret = <<r.state[name]>>
    ELSE /\ r.writes = <<>>
         /\ r.events = <<>>
         /\ r.state = state

\* C9: a command that succeeds dispatches exactly one action and emits
\* one event, which carry the record the store then holds under the name
\* (a delete: the key, and {name}); pauseTimer of a paused timer and
\* resumeTimer of a running one dispatch nothing, emit nothing and leave
\* the store as it was.
C9_OneWriteOneEvent ==
    \A name \in Names :
        /\ \A r \in {_deleteTimer(name)} : OneWriteOneEvent(name, r)
        /\ \A r \in {_pauseTimer(name)} : OneWriteOneEvent(name, r)
        /\ \A r \in {_resumeTimer(name)} : OneWriteOneEvent(name, r)
        /\ \A pause \in {"true", "false"} :
              \A r \in {_resetTimer(name, pause)} :
                  OneWriteOneEvent(name, r)
        /\ \A type \in AnyType, duration \in AnyDuration :
              \A r \in {_createTimer(name, type, duration)} :
                  OneWriteOneEvent(name, r)
        /\ (name \in DOMAIN state /\ ~state[name].running) =>
              _pauseTimer(name).outcome = "noop"
        /\ (name \in DOMAIN state /\ state[name].running) =>
              _resumeTimer(name).outcome = "noop"

\* "u" is running, so that pausing it writes and resuming it does not, and
\* "t" is paused after having run, so that pausing it does not write
C9_Witness ==
    /\ DOMAIN state = {"t", "u"}
    /\ state["u"].running
    /\ state["u"].value # 0
    /\ ~state["t"].running
    /\ "timestamp" \in DOMAIN state["t"]
    /\ _pauseTimer("u").outcome = "ok"
    /\ _resumeTimer("u").outcome = "noop"
    /\ _pauseTimer("t").outcome = "noop"

\* C10: toggleTimer of a running timer does what pauseTimer does and of a
\* paused timer what resumeTimer does: it never ends in a warning branch,
\* it writes once the record with running flipped (and, resuming, the
\* timestamp set to the clock), emits timerPaused or timerResumed with
\* that record, and returns it.
C10_ToggleIsPauseOrResume ==
    \A name \in DOMAIN state :
        LET timer == state[name]
            newTimer == IF timer.running
                        THEN [k \in DOMAIN timer |->
                                IF k = "running" THEN FALSE ELSE timer[k]]
                        ELSE [k \in DOMAIN timer \cup {"timestamp"} |->
                                IF k = "running" THEN TRUE
                                ELSE IF k = "timestamp" THEN now
                                ELSE timer[k]]
            expected ==
                Result(WithTimer(state, newTimer), "ok", "",
                       <<setTimerData(name, newTimer)>>,
                       <<event(IF timer.running THEN "timerPaused"
                               ELSE "timerResumed", newTimer)>>,
                       <<newTimer>>)
        IN  \A r \in {_toggleTimer(name)} :
                /\ r = expected
                /\ r = IF timer.running THEN _pauseTimer(name)
                       ELSE _resumeTimer(name)

\* "u" is running and "t" is paused with an old timestamp: toggling the
\* one pauses it, toggling the other resumes it
C10_Witness ==
    /\ DOMAIN state = {"t", "u"}
    /\ state["u"].running
    /\ ~state["t"].running
    /\ "timestamp" \in DOMAIN state["t"]
    /\ state["t"].timestamp < now
    /\ _toggleTimer("u").events[1].event = "timerPaused"
    /\ _toggleTimer("t").events[1].event = "timerResumed"

\* C11: deleteTimer, resetTimer, pauseTimer, resumeTimer and toggleTimer
\* for a name that is not in the registry throw "not found", dispatch
\* nothing, emit nothing and leave the registry as it was; a deleteTimer
\* that succeeds leaves the registry without the name, the other records
\* as they were, so that a second deleteTimer of the name throws.
C11_AbsentNameFails ==
    /\ \A name \in Names \ DOMAIN state :
          LET notFound == Result(state, "throw", "not found",
                                 <<>>, <<>>, <<>>)
          IN  /\ _deleteTimer(name) = notFound
              /\ _pauseTimer(name) = notFound
              /\ _resumeTimer(name) = notFound
              /\ _toggleTimer(name) = notFound
              /\ \A pause \in PauseInputs :
                    _resetTimer(name, pause) = notFound
    /\ \A name \in DOMAIN state :
          \A r \in {_deleteTimer(name)} :
              /\ r.outcome = "ok"
              /\ r.state = Without(state, name)
              /\ name \notin DOMAIN r.state

\* "t" was in the registry when the scan in progress read it and has been
\* deleted since, "u" is still there: every command for "t" throws
C11_Witness ==
    /\ "t" \in scan.pending
    /\ "t" \notin DOMAIN state
    /\ "u" \in DOMAIN state
    /\ _deleteTimer("t").error = "not found"
    /\ _toggleTimer("t").error = "not found"

\* the duration createTimer stores for a duration it accepts
Resolved(duration) ==
    IF duration.typeof = "string" THEN 1000 ELSE duration.num

\* C12: createTimer for a free name, a registered type and a duration that
\* is a number or a text that parses stores a record of exactly name, type,
\* duration (resolved to milliseconds), running = false, elapsed = false
\* and value = 0 (incrementing) or the duration (decrementing), emits
\* timerCreated with that record and returns it; the other records are
\* left as they were.  The record stays so until the next command.
C12_CreateStoresFreshTimer ==
    /\ \A name \in Names \ DOMAIN state, type \in timerTypes,
          duration \in {Number(-500), Number(0), Number(1000), String("1s")} :
          LET newTimer == [name |-> name, type |-> type,
                           duration |-> Resolved(duration),
                           running |-> FALSE, elapsed |-> FALSE,
                           value |-> IF type = "incrementing" THEN 0
                                     ELSE Resolved(duration)]
          IN  _createTimer(name, type, duration) =
                  Result(WithTimer(state, newTimer), "ok", "",
                         <<setTimerData(name, newTimer)>>,
                         <<event("timerCreated", newTimer)>>, <<newTimer>>)
    /\ \A name \in DOMAIN state :
          hist[name].phase = "created" =>
              /\ DOMAIN state[name] = {"name", "type", "duration", "running",
                                       "elapsed", "value"}
              /\ state[name].name = name
              /\ ~state[name].running
              /\ ~state[name].elapsed
              /\ state[name].value = IF state[name].type = "incrementing"
                                     THEN 0 ELSE state[name].duration

\* "t" has just been created as a decrementing timer of "1s" next to a
\* running "u", and a scan has passed it by
C12_Witness ==
    /\ DOMAIN state = {"t", "u"}
    /\ hist["t"].phase = "created"
    /\ state["t"].type = "decrementing"
    /\ state["t"].duration = 1000
    /\ state["t"].value = 1000
    /\ state["u"].running
    /\ now > 0

\* C13: resetTimer of a timer in the registry writes the record with value
\* 0 (incrementing) or the duration (decrementing), elapsed = false and
\* running = not pause, pause being true when the payload has none; name,
\* type and duration are as they were, and so is the timestamp: absent if
\* it was absent, never set to the clock.
C13_ResetFrame ==
    \A name \in DOMAIN state, pause \in PauseInputs :
        LET timer == state[name]
            newTimer ==
                [k \in DOMAIN timer |->
                    CASE k = "value" -> IF timer.type = "incrementing"
                                        THEN 0 ELSE timer.duration
                      [] k = "elapsed" -> FALSE
                      [] k = "running" -> (pause = "false")
                      [] OTHER -> timer[k]]
        IN  _resetTimer(name, pause) =
                Result(WithTimer(state, newTimer), "ok", "",
                       <<setTimerData(name, newTimer)>>,
                       <<event("timerReset", newTimer)>>, <<newTimer>>)

\* "t" is running and elapsed, with a timestamp the clock has passed: a
\* reset with pause false leaves that timestamp
C13_Witness ==
    /\ "t" \in DOMAIN state
    /\ state["t"].running
    /\ state["t"].elapsed
    /\ state["t"].value = 2000
    /\ state["t"].timestamp = 1000
    /\ now = 2000
    /\ _resetTimer("t", "false").state["t"].timestamp = 1000
    /\ _resetTimer("t", "false").state["t"].running

\* C14: in every step, a timer that was not running and is running after
\* the step was started by resumeTimer or by toggleTimer, and its
\* timestamp after the step is the clock.
C14_OnlyResumeStarts ==
    [][\A name \in DOMAIN state \cap DOMAIN state' :
          (~state[name].running /\ state'[name].running) =>
              /\ resumeTimer \/ toggleTimer
              /\ timestampOf(state'[name]) = now']_vars

\* C15: in every reachable state every timer's duration is a non-negative
\* whole number of milliseconds, and no command other than a createTimer
\* of the name, and no tick, changes it.
C15_DurationNonNegativeFixed ==
    /\ \A name \in DOMAIN state :
          /\ state[name].duration \in Nat
          /\ \A r \in {_pauseTimer(name), _resumeTimer(name),
                       _toggleTimer(name)}
                        \cup {_resetTimer(name, pause) : pause \in PauseInputs} :
                r.state[name].duration = state[name].duration
    /\ \A name \in scan.pending \cap DOMAIN state :
          _handleTimer(name).state[name].duration = state[name].duration

\* C16: for a running timer whose type has no update rule the loop logs a
\* warning and goes on: it does not throw, dispatches nothing, emits
\* nothing, leaves the store as it was, the timer included, and the scan
\* continues with every other timer it read; a running timer of a
\* recognized type in the same scan is written as usual.
C16_UnknownTypeSkipped ==
    \A name \in scan.pending : \A r \in {_handleTimer(name)} :
        LET timer == scan.snap[name]
            after == ScanAfter(name, r.outcome = "ok")
        IN  (timer.running /\ timer.type \notin timerTypes) =>
              /\ r.outcome = "noop"
              /\ r.writes = <<>>
              /\ r.events = <<>>
              /\ r.state = state
              /\ after.pending = scan.pending \ {name}
              /\ \A other \in scan.pending \ {name} :
                    /\ after.snap[other] = scan.snap[other]
                    /\ (scan.snap[other].running
                          /\ scan.snap[other].type \in timerTypes) =>
                            /\ _handleTimer(other).outcome = "ok"
                            /\ Len(_handleTimer(other).writes) = 1

\* the scan has still to take "t", running and of a type without a rule,
\* and "u", running and incrementing, with the clock past their timestamps
C16_Witness ==
    /\ scan.pending = {"t", "u"}
    /\ scan.snap["t"].running
    /\ scan.snap["t"].type = "stopwatch"
    /\ "t" \in DOMAIN state
    /\ scan.snap["u"].running
    /\ scan.snap["u"].type = "incrementing"
    /\ now > scan.snap["u"].timestamp

\* C17: in every step, a name that was not in the registry and is in it
\* after the step was put there by createTimer: a tick never constructs a
\* record, so a deleted name stays absent until it is created again.
C17_OnlyCreateAdds ==
    [][\A name \in Names :
          (name \notin DOMAIN state /\ name \in DOMAIN state') =>
              createTimer]_vars

\* C18: a tick does not undo a command.  What an iteration of the loop
\* writes is the update rule applied to the record the store holds at that
\* moment, and it writes nothing for a name the store does not hold or
\* holds as not running; in particular, while the record of a timer is the
\* one a pauseTimer wrote, the iteration leaves it not running and its
\* value as paused.
C18_NoLostUpdate ==
    /\ \A name \in scan.pending : \A r \in {_handleTimer(name)} :
              r.outcome = "ok" =>
                /\ name \in DOMAIN state
                /\ state[name].running
                /\ r.state[name] =
                      timerFunctions(state[name].type, state[name], now)
    /\ \A name \in scan.pending \cap DOMAIN state :
          hist[name].pst = "paused" =>
              LET w == _handleTimer(name).state[name]
              IN  /\ ~w.running
                  /\ w.value = hist[name].pv

\* C19: in every reachable state a running timer has a timestamp and a
\* value that are numbers, so that the gap of its next tick is a number.
C19_RunningHasTimestamp ==
    \A name \in DOMAIN state :
        state[name].running =>
            /\ "timestamp" \in DOMAIN state[name]
            /\ state[name].timestamp # NaN
            /\ state[name].value # NaN

\* C20: while the clock has never gone backwards, a timer that is elapsed
\* is still elapsed after every step other than a resetTimer or a
\* deleteTimer of it (ticks, pauses, resumes and toggles included), and
\* at most one timerElapsed has been emitted for it since it was created
\* or last reset.
C20_ElapsedIsSticky ==
    /\ [](backs = 0 => \A name \in Names : hist[name].el <= 1)
    /\ [][backs' = 0 =>
            \A name \in DOMAIN state :
                state[name].elapsed =>
                    \/ name \in DOMAIN state' /\ state'[name].elapsed
                    \/ resetTimer /\ name \in DOMAIN state'
                    \/ deleteTimer /\ name \notin DOMAIN state']_vars

\* "t" elapsed with one timerElapsed, was paused and resumed afterwards,
\* and is still elapsed, the clock never having gone backwards
C20_Witness ==
    /\ "t" \in DOMAIN state
    /\ state["t"].elapsed
    /\ state["t"].running
    /\ hist["t"].pst = "resumed"
    /\ hist["t"].el = 1
    /\ backs = 0

====
